---- MODULE Spec2Model ----
(***************************************************************************)
(* A model of turo_takehome.py: the feature builder clean_data, which      *)
(* joins per-vehicle reservation counts onto the vehicle table, and the    *)
(* script body that loads the two tables, cleans them, prints statistics   *)
(* and writes the plots.                                                   *)
(*                                                                         *)
(* A data frame is a record: its columns (a set of names) and its rows.    *)
(* The vehicle table is indexed by a unique vehicle_id, so its rows are a  *)
(* function from the index to the row's cells.  The reservation table has  *)
(* a non-unique index, so its rows are a bag of <vehicle_id, cells>; row   *)
(* order plays no role in get_dummies / groupby / sum.                     *)
(* A cell is <<>> (NaN, a missing value) or <<n>> (the number n).          *)
(***************************************************************************)
EXTENDS Integers, FiniteSets, Sequences, Bags, TLC

\* ------------------------------------------------------------ bounds ----
\* the reservation table holds at most MaxRes rows
MaxRes == 4
\* vehicle ids are 1..MaxId; the vehicle table holds any subset of them
MaxId == 2

Ids == 1 .. MaxId

\* reservation_type values met in the data: 1, 2, 3 are the categories the
\* code names (hourly, daily, weekly), 4 stands for any other value
ResTypeValues == {1, 2, 3, 4}

\* <<actual_price, recommended_price>> of a vehicle row; <<>> is a blank field.
\* A vehicle table takes its price rows from this list, starting at any place
\* of it: vehicle id gets the row id - 1 places further on (cyclically).
PriceList ==
  << << <<100>>, <<80>> >>, << <<50>>, <<60>> >>, << <<>>, <<60>> >>, << <<50>>, <<>> >> >>

price_row(id, shift) == PriceList[((id - 1 + shift) % Len(PriceList)) + 1]

\* ------------------------------------------------------------- cells ----
NaN == <<>>

Num(n) == <<n>>

isnull(c) == c = NaN

\* pandas arithmetic on two cells: NaN propagates
cell_sub(a, b) == IF isnull(a) \/ isnull(b) THEN NaN ELSE Num(a[1] - b[1])

\* ------------------------------------------------------ column names ----
\* prefix + '_' + str(value), the column get_dummies makes for a value
dummy_name(v) ==
  CASE v = 1 -> "res_type_1"
    [] v = 2 -> "res_type_2"
    [] v = 3 -> "res_type_3"
    [] OTHER -> "res_type_4"

res_types == {"res_type_1", "res_type_2", "res_type_3"}

\* the failure pandas raises for a column label that is not in the frame
KeyError == "KeyError"

\* the failure Python raises for a global name that is not bound
NameError == "NameError"

\* ------------------------------------------------- data-frame helpers ----
RECURSIVE SumOver(_, _)
SumOver(S, f) ==
  IF S = {} THEN 0
  ELSE LET x == CHOOSE y \in S : TRUE IN f[x] + SumOver(S \ {x}, f)

\* df[c] raises KeyError when c is no column of df
missing_column(df, c) == c \notin df.columns

\* reservation_df['reservation_type']: the series <vehicle_id, value>
series_of(df, c) ==
  BagOfAll(LAMBDA r : [vehicle_id |-> r.vehicle_id, value |-> r.data[c]], df.rows)

\* pd.get_dummies(series, prefix='res_type'): one 0/1 column per value that
\* occurs in the series
get_dummies(series) ==
  LET cols == {dummy_name(r.value) : r \in BagToSet(series)}
  IN  [columns |-> cols,
       rows |-> BagOfAll(LAMBDA r :
                  [vehicle_id |-> r.vehicle_id,
                   data |-> [c \in cols |-> IF c = dummy_name(r.value) THEN 1 ELSE 0]],
                  series)]

\* (variant) the new column holds value only in the rows that belong to one of
\* the three named categories
with_constant_named_only(res, c, value) ==
  [columns |-> res.columns \cup {c},
   rows |-> BagOfAll(LAMBDA r :
              [vehicle_id |-> r.vehicle_id,
               data |-> [k \in res.columns \cup {c} |->
                          IF k = c
                          THEN (IF \E t \in res.columns \cap res_types : r.data[t] = 1
                                THEN value ELSE 0)
                          ELSE r.data[k]]],
              res.rows)]

\* res[c] = value: a new column holding value in every row
with_constant(res, c, value) ==
  [columns |-> res.columns \cup {c},
   rows |-> BagOfAll(LAMBDA r :
              [vehicle_id |-> r.vehicle_id,
               data |-> [k \in res.columns \cup {c} |->
                          IF k = c THEN value ELSE r.data[k]]],
              res.rows)]

\* (variant) a sum over the whole table in every group
groupby_sum_ungrouped(res) ==
  LET distinct == BagToSet(res.rows)
      idx == {r.vehicle_id : r \in distinct}
  IN  [index |-> idx,
       columns |-> res.columns,
       rows |-> [id \in idx |-> [c \in res.columns |->
                  Num(SumOver(distinct, [r \in distinct |-> res.rows[r] * r.data[c]]))]]]

\* res.groupby(level='vehicle_id').sum(): one row per vehicle_id that occurs
\* in res, each column summed over the rows of that vehicle_id
groupby_sum(res) ==
  LET distinct == BagToSet(res.rows)
      idx == {r.vehicle_id : r \in distinct}
  IN  [index |-> idx,
       columns |-> res.columns,
       rows |-> [id \in idx |-> [c \in res.columns |->
                  Num(SumOver({r \in distinct : r.vehicle_id = id},
                              [r \in distinct |-> res.rows[r] * r.data[c]]))]]]

\* frame[c] of an indexed frame: the series index -> cell
column_of(frame, c) == [id \in frame.index |-> frame.rows[id][c]]

\* (variant) an outer join: a label only the series has becomes a new row
set_column_outer(df, c, series) ==
  [index |-> df.index \cup DOMAIN series,
   columns |-> df.columns \cup {c},
   rows |-> [id \in df.index \cup DOMAIN series |-> [k \in df.columns \cup {c} |->
              IF k = c
              THEN (IF id \in DOMAIN series THEN series[id] ELSE NaN)
              ELSE (IF id \in df.index THEN df.rows[id][k] ELSE NaN)]]]

\* df[c] = series: the series is aligned on df's index; a label of df the
\* series lacks gets NaN, a label only the series has is dropped
set_column(df, c, series) ==
  [index |-> df.index,
   columns |-> df.columns \cup {c},
   rows |-> [id \in df.index |-> [k \in df.columns \cup {c} |->
              IF k = c
              THEN (IF id \in DOMAIN series THEN series[id] ELSE NaN)
              ELSE df.rows[id][k]]]]

\* (variant) nothing is filled
fillna_skipped(df, value) == df

\* df.fillna(value, inplace=True): every NaN cell of every column
fillna(df, value) ==
  [index |-> df.index,
   columns |-> df.columns,
   rows |-> [id \in df.index |-> [k \in df.columns |->
              IF isnull(df.rows[id][k]) THEN Num(value) ELSE df.rows[id][k]]]]

\* ---------------------------------------------------------- clean_data ----
\* the result of a call: what was raised ("" when the call returned), the
\* caller's vehicle table as the call left it, and the returned table
\* (<<>> when the call raised; the returned table is the mutated argument)
Raised(kind, df) == [raised |-> kind, vehicle_df |-> df, returned |-> <<>>]

Returned(df) == [raised |-> "", vehicle_df |-> df, returned |-> <<df>>]

res_by_vehicle(rdf) ==
  groupby_sum(with_constant(get_dummies(series_of(rdf, "reservation_type")),
                            "reservation", 1))

\* lines 25-27: the count columns copied onto the vehicle table
with_total(rdf, vdf) ==
  set_column(vdf, "total_reservations", column_of(res_by_vehicle(rdf), "reservation"))

RECURSIVE set_columns(_, _, _)
set_columns(df, keys, frame) ==
  IF keys = {} THEN df
  ELSE LET k == CHOOSE x \in keys : TRUE
       IN  set_columns(set_column(df, k, column_of(frame, k)), keys \ {k}, frame)

with_types(rdf, vdf) == set_columns(with_total(rdf, vdf), res_types, res_by_vehicle(rdf))

\* line 30
filled(rdf, vdf) == fillna(with_types(rdf, vdf), 0)

\* (variant) the difference is stored over the actual price
with_price_difference_overwrites(df) ==
  set_column(df, "actual_price",
             [id \in df.index |->
                cell_sub(df.rows[id]["actual_price"], df.rows[id]["recommended_price"])])

\* line 33
with_price_difference(df) ==
  set_column(df, "price_difference",
             [id \in df.index |->
                cell_sub(df.rows[id]["actual_price"], df.rows[id]["recommended_price"])])

\* (variant) the price difference is left out when a price column is absent
clean_data_skips_price(rdf, vdf) ==
  IF missing_column(rdf, "reservation_type") THEN Raised(KeyError, vdf)
  ELSE IF \E c \in res_types : missing_column(res_by_vehicle(rdf), c)
       THEN Raised(KeyError, with_total(rdf, vdf))
  ELSE IF missing_column(vdf, "actual_price") \/ missing_column(vdf, "recommended_price")
       THEN Returned(filled(rdf, vdf))
  ELSE Returned(with_price_difference(filled(rdf, vdf)))

clean_data(rdf, vdf) ==
  IF missing_column(rdf, "reservation_type") THEN Raised(KeyError, vdf)
  ELSE IF \E c \in res_types : missing_column(res_by_vehicle(rdf), c)
       THEN Raised(KeyError, with_total(rdf, vdf))
  ELSE IF missing_column(vdf, "actual_price") \/ missing_column(vdf, "recommended_price")
       THEN Raised(KeyError, filled(rdf, vdf))
  ELSE Returned(with_price_difference(filled(rdf, vdf)))

\* ------------------------------------------------------------- inputs ----
RECURSIVE BagsUpTo(_, _)
BagsUpTo(items, n) ==
  IF n = 0 THEN {EmptyBag}
  ELSE LET B == BagsUpTo(items, n - 1)
       IN  B \cup {b (+) SetToBag({x}) : b \in B, x \in items}

\* reservation tables: with the reservation_type column, or without it
ReservationTables ==
  {[columns |-> {"reservation_type"}, rows |-> b] :
     b \in BagsUpTo({[vehicle_id |-> id, data |-> [c \in {"reservation_type"} |-> t]] :
                       id \in Ids, t \in ResTypeValues}, MaxRes)}
  \cup
  {[columns |-> {}, rows |-> b] :
     b \in BagsUpTo({[vehicle_id |-> id, data |-> <<>>] : id \in Ids}, MaxRes)}

PriceColumns == {"actual_price", "recommended_price"}

price_cell(p, c) == IF c = "actual_price" THEN p[1] ELSE p[2]

\* vehicle tables: any subset of the ids, a price row each, and at most one
\* of the two price columns left out
VehicleTables ==
  {[index |-> idx, columns |-> cols,
    rows |-> [id \in idx |-> [c \in cols |-> price_cell(price_row(id, shift), c)]]] :
     idx \in SUBSET Ids, shift \in 0 .. (Len(PriceList) - 1),
     cols \in {PriceColumns, {"actual_price"}, {"recommended_price"}}}

\* the other columns of the vehicles file, which clean_data leaves alone and
\* the statistics and the plots read
OtherColumns == {"num_images", "description", "technology", "street_parked"}

other_cell(id, c) ==
  IF c \in {"technology", "street_parked"} THEN Num(id % 2) ELSE Num(id)

with_attributes(df) ==
  [index |-> df.index,
   columns |-> df.columns \cup OtherColumns,
   rows |-> [id \in df.index |-> [c \in df.columns \cup OtherColumns |->
              IF c \in df.columns THEN df.rows[id][c] ELSE other_cell(id, c)]]]

\* the contents of vehicles_(6).csv
VehicleFiles == {with_attributes(df) : df \in VehicleTables}

\* ---------------------------------------------------- the other functions ----
\* do_some_eda: describe() is printed, then the two correlation tables, each
\* after selecting its columns
features_1 == {"actual_price", "recommended_price", "price_difference", "total_reservations"}

features2 == {"num_images", "description", "total_reservations"}

do_some_eda(df) ==
  IF \E c \in features_1 : missing_column(df, c)
  THEN [raised |-> KeyError, printed |-> <<"describe">>]
  ELSE IF \E c \in features2 : missing_column(df, c)
  THEN [raised |-> KeyError, printed |-> <<"describe", "corr">>]
  ELSE [raised |-> "", printed |-> <<"describe", "corr", "corr_spearman">>]

\* the file make_violin_plot saves for a feature and a target ({} when no
\* branch of it matches)
violin_file(feature, target) ==
  IF feature = "technology" /\ target = "total_reservations" THEN {"total_res_vs_technology"}
  ELSE IF feature = "street_parked" /\ target = "total_reservations"
       THEN {"total_res_vs_street_parked"}
  ELSE IF feature = "technology"
       THEN (IF target = "res_type_1" THEN {"hourly_res_vs_technology"}
             ELSE IF target = "res_type_2" THEN {"daily_res_vs_technology"}
             ELSE IF target = "res_type_3" THEN {"weekly_res_vs_technology"}
             ELSE {})
  ELSE {}

\* the columns a plotting function reads, and the file it saves
plot_columns(s) ==
  CASE s.fn = "plot_reservations_dist" -> {"total_reservations"}
    [] s.fn = "make_box_plot" -> {"num_images", "total_reservations"}
    [] s.fn = "make_reg_plot" -> {"price_difference", "total_reservations"}
    [] OTHER -> {s.feature, s.target}

plot_file(s) ==
  CASE s.fn = "plot_reservations_dist" -> {"total_res_distr"}
    [] s.fn = "make_box_plot" -> {"image_res_box_plot"}
    [] s.fn = "make_reg_plot" -> {"total_res_vs_price_diff"}
    [] OTHER -> violin_file(s.feature, s.target)

\* the names bound at module level when the script body starts
Globals ==
  {"pd.read_csv", "clean_data", "do_some_eda", "plot_reservations_dist",
   "make_box_plot", "make_reg_plot", "make_violin_plot"}

Call(fn) == [fn |-> fn, feature |-> "", target |-> ""]

Violin(feature, target) == [fn |-> "make_violin_plot", feature |-> feature, target |-> target]

\* the statements of the script body, in order
Script ==
  << Call("pd.read_csv"),
     Call("clean_data"),
     Call("do_some_eda"),
     Call("plot_reservations_dist"),
     Call("make_box_plot"),
     Call("make_joint_plot"),
     Violin("technology", "total_reservations"),
     Violin("street_parked", "total_reservations"),
     Violin("technology", "res_type_1"),
     Violin("technology", "res_type_2"),
     Violin("technology", "res_type_3") >>

\* -------------------------------------------------------------- state ----
VARIABLES
  reservation_df,   \* the caller's reservation table
  vehicle_df,       \* the caller's vehicle table (clean_data mutates it)
  outcome,          \* <<>> before clean_data is called, <<its result>> after
  R0, V0,           \* the two tables as they were before the call
  pc,               \* the statement of Script to run next (0: no script runs)
  halted,           \* "" while running, "done", or the exception that ended the run
  files,            \* the image files written
  stdout            \* the tables printed

vars == <<reservation_df, vehicle_df, outcome, R0, V0, pc, halted, files, stdout>>

\* a name that is not bound yet
Unbound == [unbound |-> TRUE]

\* --- a caller that calls clean_data once, on any two tables
Init ==
  /\ reservation_df \in ReservationTables
  /\ vehicle_df \in VehicleTables
  /\ outcome = <<>>
  /\ R0 = reservation_df
  /\ V0 = vehicle_df
  /\ pc = 0
  /\ halted = ""
  /\ files = {}
  /\ stdout = <<>>

\* vehicle_df = clean_data(reservation_df, vehicle_df)
CallCleanData ==
  /\ pc = 0
  /\ outcome = <<>>
  /\ LET r == clean_data(reservation_df, vehicle_df)
     IN  /\ outcome' = <<r>>
         /\ vehicle_df' = r.vehicle_df
  /\ UNCHANGED <<reservation_df, R0, V0, pc, halted, files, stdout>>

Next == CallCleanData

Spec == Init /\ [][Next]_vars

\* --- the script: R0 and V0 are the contents of the two csv files
InitMain ==
  /\ R0 \in ReservationTables
  /\ V0 \in VehicleFiles
  /\ reservation_df = Unbound
  /\ vehicle_df = Unbound
  /\ outcome = <<>>
  /\ pc = 1
  /\ halted = ""
  /\ files = {}
  /\ stdout = <<>>

\* after a statement that raised nothing: on to the next one, or the end
Advance ==
  /\ pc' = pc + 1
  /\ halted' = IF pc = Len(Script) THEN "done" ELSE ""

\* an exception nothing catches ends the run
Abort(kind) ==
  /\ pc' = pc
  /\ halted' = kind

Stmt == Script[pc]

Running == pc \in 1 .. Len(Script) /\ halted = ""

PlotFunctions ==
  {"plot_reservations_dist", "make_box_plot", "make_reg_plot", "make_violin_plot"}

\* lines 189-190: the two tables are read from their files
ReadCsv ==
  /\ Running
  /\ Stmt.fn = "pd.read_csv"
  /\ vehicle_df' = V0
  /\ reservation_df' = R0
  /\ Advance
  /\ UNCHANGED <<outcome, R0, V0, files, stdout>>

\* line 193: vehicle_df = clean_data(reservation_df, vehicle_df)
MainCleanData ==
  /\ Running
  /\ Stmt.fn = "clean_data"
  /\ LET r == clean_data(reservation_df, vehicle_df)
     IN  /\ outcome' = <<r>>
         /\ vehicle_df' = r.vehicle_df
         /\ IF r.raised = "" THEN Advance ELSE Abort(r.raised)
  /\ UNCHANGED <<reservation_df, R0, V0, files, stdout>>

\* line 197: do_some_eda(vehicle_df)
MainEda ==
  /\ Running
  /\ Stmt.fn = "do_some_eda"
  /\ LET r == do_some_eda(vehicle_df)
     IN  /\ stdout' = stdout \o r.printed
         /\ IF r.raised = "" THEN Advance ELSE Abort(r.raised)
  /\ UNCHANGED <<reservation_df, vehicle_df, outcome, R0, V0, files>>

\* a call of one of the plotting functions the module defines
MainPlot ==
  /\ Running
  /\ Stmt.fn \in PlotFunctions \cap Globals
  /\ IF \E c \in plot_columns(Stmt) : missing_column(vehicle_df, c)
     THEN Abort(KeyError) /\ files' = files
     ELSE Advance /\ files' = files \cup plot_file(Stmt)
  /\ UNCHANGED <<reservation_df, vehicle_df, outcome, R0, V0, stdout>>

\* a call of a name the module does not bind
MainUnboundName ==
  /\ Running
  /\ Stmt.fn \notin Globals
  /\ Abort(NameError)
  /\ UNCHANGED <<reservation_df, vehicle_df, outcome, R0, V0, files, stdout>>

NextMain == ReadCsv \/ MainCleanData \/ MainEda \/ MainPlot \/ MainUnboundName

SpecMain == InitMain /\ [][NextMain]_vars

\* ====================================================== properties ====
Done == outcome # <<>>

Result == outcome[1]

Ok == Done /\ Result.raised = ""

\* the table clean_data returned
Out == Result.returned[1]

\* the number of rows of R for vehicle id
rows_of(R, id) ==
  SumOver({r \in BagToSet(R.rows) : r.vehicle_id = id}, R.rows)

\* the number of rows of R for vehicle id whose reservation_type is in T
reservations_of(R, id, T) ==
  SumOver({r \in BagToSet(R.rows) :
             r.vehicle_id = id /\ r.data["reservation_type"] \in T}, R.rows)

\* the categories the code names, and the others
FixedTypes == {t \in ResTypeValues : dummy_name(t) \in res_types}

OtherTypes == ResTypeValues \ FixedTypes

CountColumns == res_types \cup {"total_reservations"}

\* R without the rows that satisfy Drop
without_rows(R, Drop(_)) ==
  [columns |-> R.columns,
   rows |-> [r \in {x \in BagToSet(R.rows) : ~Drop(x)} |-> R.rows[r]]]

\* the types that occur in R
types_in(R) == {r.data["reservation_type"] : r \in BagToSet(R.rows)}

\* every column clean_data reads is there
SchemaComplete(R, V) ==
  /\ ~missing_column(R, "reservation_type")
  /\ ~missing_column(V, "actual_price")
  /\ ~missing_column(V, "recommended_price")

cell_value(c) == c[1]

\* ---- C1 ----------------------------------------------------------------
\* C1: the table clean_data returns has exactly the vehicle_ids of the
\* vehicle table it was given, one row each: no vehicle is lost for having
\* no reservation, none is doubled for having many, none is added.
C1_OneRowPerVehicle ==
  Ok => /\ Out.index = V0.index
        /\ DOMAIN Out.rows = V0.index
        /\ Cardinality(Out.index) = Cardinality(V0.index)

\* a returned table for a vehicle without reservations and a vehicle with
\* several
C1_Witness ==
  /\ Ok
  /\ \E v, w \in V0.index : rows_of(R0, v) = 0 /\ rows_of(R0, w) >= 2

\* ---- C2 ----------------------------------------------------------------
\* C2: in the returned table no count column is missing or null in any row,
\* and a vehicle without any reservation record has 0 in total_reservations
\* and in res_type_1, res_type_2, res_type_3.
C2_ZeroFilled ==
  Ok => /\ CountColumns \subseteq Out.columns
        /\ \A v \in Out.index : \A c \in CountColumns :
             /\ ~isnull(Out.rows[v][c])
             /\ (rows_of(R0, v) = 0 => Out.rows[v][c] = Num(0))

C2_Witness ==
  /\ Ok
  /\ \E v \in Out.index : rows_of(R0, v) = 0

\* ---- C3 ----------------------------------------------------------------
\* C3: for every vehicle v and every category c of {1, 2, 3}, res_type_c of
\* v in the returned table is the number of reservation records of v whose
\* reservation_type is c.
C3_PerTypeCounts ==
  Ok => \A v \in V0.index : \A t \in FixedTypes :
          Out.rows[v][dummy_name(t)] = Num(reservations_of(R0, v, {t}))

\* two vehicles with reservations, one of them with two of one category
C3_Witness ==
  /\ Ok
  /\ \E v, w \in V0.index : \E t \in FixedTypes :
       /\ v # w
       /\ reservations_of(R0, v, {t}) >= 2
       /\ rows_of(R0, w) >= 1

\* ---- C4 ----------------------------------------------------------------
\* the example of the specification: vehicle 1 (100 / 80) reserved with the
\* types 1, 1, 2; vehicle 2 (50 / 60) never reserved
ExampleR ==
  [columns |-> {"reservation_type"},
   rows |-> ([vehicle_id |-> 1, data |-> [c \in {"reservation_type"} |-> 1]] :> 2)
            @@ ([vehicle_id |-> 1, data |-> [c \in {"reservation_type"} |-> 2]] :> 1)]

ExampleV ==
  [index |-> {1, 2},
   columns |-> PriceColumns,
   rows |-> [id \in {1, 2} |-> [c \in PriceColumns |->
              price_cell(IF id = 1 THEN << <<100>>, <<80>> >> ELSE << <<50>>, <<60>> >>, c)]]]

ExampleOut ==
  [id \in {1, 2} |->
     IF id = 1
     THEN [total_reservations |-> <<3>>, res_type_1 |-> <<2>>, res_type_2 |-> <<1>>,
           res_type_3 |-> <<0>>, price_difference |-> <<20>>,
           actual_price |-> <<100>>, recommended_price |-> <<80>>]
     ELSE [total_reservations |-> <<0>>, res_type_1 |-> <<0>>, res_type_2 |-> <<0>>,
           res_type_3 |-> <<0>>, price_difference |-> <<0 - 10>>,
           actual_price |-> <<50>>, recommended_price |-> <<60>>]]

\* C4: when a category of {1, 2, 3} has no reservation at all in R, the call
\* returns (no error) and reports 0 for that category for every vehicle; on
\* the example it returns 3, 2, 1, 0, 20 for vehicle 1 and 0, 0, 0, 0, -10
\* for vehicle 2.  (Stated for tables that are not empty.)
C4_AbsentCategoryIsZero ==
  /\ (/\ Done
      /\ SchemaComplete(R0, V0)
      /\ V0.index # {}
      /\ R0.rows # EmptyBag
      /\ FixedTypes \ types_in(R0) # {})
       => /\ Ok
          /\ \A v \in V0.index : \A t \in FixedTypes \ types_in(R0) :
               Out.rows[v][dummy_name(t)] = Num(0)
  /\ (Done /\ R0 = ExampleR /\ V0 = ExampleV)
       => /\ Ok
          /\ Out.rows = ExampleOut

\* ---- C5 ----------------------------------------------------------------
\* C5: in the returned table total_reservations of a vehicle is res_type_1 +
\* res_type_2 + res_type_3 plus the number of its reservations of a type
\* outside {1, 2, 3}; and reservations of such a type make no difference to
\* whether the call raises.
C5_TotalIsSumPlusOthers ==
  /\ Ok => \A v \in V0.index :
             cell_value(Out.rows[v]["total_reservations"])
               = cell_value(Out.rows[v]["res_type_1"])
                 + cell_value(Out.rows[v]["res_type_2"])
                 + cell_value(Out.rows[v]["res_type_3"])
                 + reservations_of(R0, v, OtherTypes)
  /\ (Done /\ ~missing_column(R0, "reservation_type"))
       => Result.raised =
            clean_data(without_rows(R0, LAMBDA r : r.data["reservation_type"] \in OtherTypes),
                       V0).raised

\* a returned table for a vehicle that has a reservation of another type
C5_Witness ==
  /\ Ok
  /\ \E v \in V0.index : reservations_of(R0, v, OtherTypes) >= 1

\* ---- C6 ----------------------------------------------------------------
\* C6: price_difference of every vehicle in the returned table is the
\* actual_price it came in with minus the recommended_price it came in with.
C6_PriceDifferenceOfInputs ==
  Ok => \A v \in V0.index :
          Out.rows[v]["price_difference"]
            = cell_sub(V0.rows[v]["actual_price"], V0.rows[v]["recommended_price"])

\* ---- C7 ----------------------------------------------------------------
IsOrphan(r) == r.vehicle_id \notin V0.index

\* C7: reservations of a vehicle_id the vehicle table does not hold are
\* excluded without a trace: the call behaves as on the reservation table
\* without them (it raises or returns alike and returns the same table), and
\* the returned table has no row for such an id.  (Stated for reservation
\* tables that also hold a reservation of a vehicle of the vehicle table.)
C7_OrphansExcluded ==
  (/\ Done
   /\ ~missing_column(R0, "reservation_type")
   /\ \E r \in BagToSet(R0.rows) : IsOrphan(r)
   /\ \E r \in BagToSet(R0.rows) : ~IsOrphan(r))
    => LET alt == clean_data(without_rows(R0, IsOrphan), V0)
       IN  /\ Result.raised = alt.raised
           /\ Result.returned = alt.returned
           /\ Ok => \A r \in BagToSet(R0.rows) : IsOrphan(r) => r.vehicle_id \notin Out.index

\* ---- C8 ----------------------------------------------------------------
MissingRequired ==
  \/ missing_column(R0, "reservation_type")
  \/ missing_column(V0, "actual_price")
  \/ missing_column(V0, "recommended_price")

\* C8 as stated: a call on tables that lack reservation_type, actual_price or
\* recommended_price ends in the error kind SchemaError and returns no table.
C8_SchemaError ==
  (Done /\ MissingRequired) => Result.raised = "SchemaError" /\ Result.returned = <<>>

\* C8, amended: such a call ends in the KeyError of the column lookup and
\* returns no table.
C8_KeyError ==
  (Done /\ MissingRequired) => Result.raised = KeyError /\ Result.returned = <<>>

\* a call that got as far as the price columns and found one absent
C8_Witness ==
  /\ Done
  /\ ~missing_column(R0, "reservation_type")
  /\ FixedTypes \subseteq types_in(R0)
  /\ missing_column(V0, "actual_price")
  /\ V0.index # {}

\* ---- C9 ----------------------------------------------------------------
\* C9 as stated: after a call, returned or raised, the caller's two tables
\* are what they were before it.  (Stated for tables that are not empty.)
C9_InputsUntouched ==
  (Done /\ V0.index # {} /\ R0.rows # EmptyBag)
    => reservation_df = R0 /\ vehicle_df = V0

AddedColumns == CountColumns \cup {"price_difference"}

\* C9, amended: after a call, returned or raised, the reservation table is
\* what it was; the vehicle table has the same rows and still has its
\* columns, with every value that was not null unchanged, but it may have
\* gained columns among total_reservations, res_type_1..3, price_difference
\* and a null of it may have become 0; the returned table is this table.
C9_InputsKept ==
  Done => /\ reservation_df = R0
          /\ vehicle_df.index = V0.index
          /\ V0.columns \subseteq vehicle_df.columns
          /\ vehicle_df.columns \ V0.columns \subseteq AddedColumns
          /\ \A v \in V0.index : \A c \in V0.columns :
               \/ vehicle_df.rows[v][c] = V0.rows[v][c]
               \/ isnull(V0.rows[v][c]) /\ vehicle_df.rows[v][c] = Num(0)
          /\ Ok => Out = vehicle_df

\* a returned call that added columns and replaced a null price
C9_Witness ==
  /\ Ok
  /\ AddedColumns \subseteq vehicle_df.columns
  /\ \E v \in V0.index : \E c \in V0.columns :
       isnull(V0.rows[v][c]) /\ vehicle_df.rows[v][c] = Num(0)
  /\ \E v \in V0.index : \E c \in V0.columns : ~isnull(V0.rows[v][c])

\* ---- C10 ---------------------------------------------------------------
Artifacts ==
  {"total_res_distr", "image_res_box_plot", "total_res_vs_price_diff",
   "total_res_vs_technology", "total_res_vs_street_parked",
   "hourly_res_vs_technology", "daily_res_vs_technology", "weekly_res_vs_technology"}

\* files on which clean_data returns: every column there, no field blank,
\* every category met, and at least one vehicle
WellFormed ==
  /\ SchemaComplete(R0, V0)
  /\ V0.index # {}
  /\ \A v \in V0.index : \A c \in V0.columns : ~isnull(V0.rows[v][c])
  /\ OtherColumns \subseteq V0.columns
  /\ FixedTypes \subseteq types_in(R0)

\* C10: a run of the script on well-formed files ends only by reaching the
\* end of the script, with the three tables printed and every image written.
C10_RunWritesAllPlots ==
  (WellFormed /\ halted # "")
    => /\ halted = "done"
       /\ files = Artifacts
       /\ Len(stdout) = Len(do_some_eda(vehicle_df).printed)

====
